---- MODULE Spec2Model ----
(***************************************************************************)
(* Model of the two request handlers of the repository:                    *)
(*   summarize_text         (app.py)                    text -> str        *)
(*   TextProcessor.process  (text-summarizer-ner/app.py) text -> str, list *)
(* The Hugging Face pipelines are external: what they answer when invoked  *)
(* (a value or an exception) is chosen by the environment.                 *)
(* max_len and min_len are only passed on to the pipeline (inside the try  *)
(* block) and are not modelled.                                            *)
(***************************************************************************)
EXTENDS Integers, Sequences, FiniteSets, TLC

VARIABLES
    summarizer,         \* app.py: module global `summarizer` (pipeline or None)
    proc_summarizer,    \* TextProcessor.summarizer
    proc_ner_pipeline,  \* TextProcessor.ner_pipeline
    text,               \* the `text` argument of the request
    sum_outcome,        \* what the summarization pipeline does when invoked
    ner_outcome,        \* what the NER pipeline does when invoked
    handler,            \* the handler that served the request last
    ret,                \* its completion: exception or returned value
    calls,              \* the pipeline invocations it made, in order
    c_text,             \* concurrent stitching: summary_text of each call
    c_spans,            \* concurrent stitching: ner_res of each call
    c_pc,               \* concurrent stitching: position of each call
    c_idx,              \* concurrent stitching: loop index of each call
    c_cursor,           \* concurrent stitching: local `cursor` of each call
    c_out               \* concurrent stitching: local `formatted_output`

vars == <<summarizer, proc_summarizer, proc_ner_pipeline, text, sum_outcome,
          ner_outcome, handler, ret, calls,
          c_text, c_spans, c_pc, c_idx, c_cursor, c_out>>

req_vars == <<summarizer, proc_summarizer, proc_ner_pipeline, text,
              sum_outcome, ner_outcome>>

conc_vars == <<c_text, c_spans, c_pc, c_idx, c_cursor, c_out>>

----------------------------------------------------------------------------
(* Bounds of the model *)

MaxLen == 4         \* longest summary text
MaxSpans == 3       \* most spans in a well-formed tagger answer
MaxAnySpans == 2    \* most spans in an unconstrained tagger answer
MaxPad == 1         \* short runs of blanks around a request text
LongPad == 60       \* a long run of blanks
Delta == 1          \* request body lengths lie within Delta of the threshold

(* Program constants *)

MIN_CHARS == 50

None == "None"
PIPELINE == "pipeline"

\* the messages the handlers return, without their leading warning sign;
\* MSG_SUMMARY stands for a return of the summary itself

MSG_NOT_LOADED == "Error: Model not loaded correctly. Check logs."
MSG_ENTER_TEXT == "Please enter some text to summarize."
MSG_INPUT_TOO_SHORT == "Input text is too short. Please provide a longer paragraph."
MSG_ERROR_OCCURRED == "An error occurred: "
MSG_NOT_INITIALIZED == "Error: Models not initialized. See logs."
MSG_TEXT_TOO_SHORT == "Text too short. Please provide at least 50 characters."
MSG_PROCESSING_ERROR == "Error during processing: "
MSG_SUMMARY == "summary_text"

Whitespace == {" ", "\t", "\n"}
Chars == {"a", " "}
Labels == {"PER", "LOC"}
Exceptions == {"RuntimeError"}

----------------------------------------------------------------------------
(* Python string primitives *)

MinOf(S) == CHOOSE x \in S : \A y \in S : x <= y
MaxOf(S) == CHOOSE x \in S : \A y \in S : x >= y

\* mutant: a negative index is clamped to 0 instead of counting from the end
SliceIndexNoWrap(s, i) ==
    IF i < 0 THEN 0 ELSE (IF i > Len(s) THEN Len(s) ELSE i)

\* a slice index as str.__getitem__ normalises it: negative counts from the
\* end, and the result is clamped into 0..len
SliceIndex(s, i) ==
    IF i < 0 THEN (IF i + Len(s) < 0 THEN 0 ELSE i + Len(s))
    ELSE (IF i > Len(s) THEN Len(s) ELSE i)

\* s[lo:hi]
PySlice(s, lo, hi) ==
    LET a == SliceIndex(s, lo)
        b == SliceIndex(s, hi)
    IN IF a >= b THEN <<>> ELSE SubSeq(s, a + 1, b)

\* s[lo:]
PySliceFrom(s, lo) ==
    LET a == SliceIndex(s, lo)
    IN IF a >= Len(s) THEN <<>> ELSE SubSeq(s, a + 1, Len(s))

\* s.strip()
Strip(s) ==
    LET keep == {i \in 1..Len(s) : s[i] \notin Whitespace}
    IN IF keep = {} THEN <<>> ELSE SubSeq(s, MinOf(keep), MaxOf(keep))

\* a completion of a block of code: an exception, or a value; with the
\* pipeline invocations made on the way
Raise(e, log) == [exc |-> e, calls |-> log]
Return(v, log) == [exc |-> None, val |-> v, calls |-> log]

\* invoking a pipeline whose behaviour the environment fixed as `outcome`
Invoke(fn, arg, outcome, log) ==
    LET log2 == Append(log, [fn |-> fn, arg |-> arg])
    IN IF outcome.raises THEN Raise(outcome.exc, log2)
       ELSE Return(outcome.val, log2)

----------------------------------------------------------------------------
(* Stitching of the tagged summary (process, step 3) *)

\* the loop's state before the first entity
StitchStart == [out |-> <<>>, cursor |-> 0]

\* mutant: the gap is emitted when the entity starts at the cursor too
GapBeforeNotAfter(summary_text, cursor, entity) ==
    IF entity.start >= cursor
    THEN << <<PySlice(summary_text, cursor, entity.start), None>> >>
    ELSE <<>>

\* "Text before entity"
GapBefore(summary_text, cursor, entity) ==
    IF entity.start > cursor
    THEN << <<PySlice(summary_text, cursor, entity.start), None>> >>
    ELSE <<>>

\* mutant: the entity's end offset taken as inclusive
EntitySegmentInclusiveEnd(summary_text, entity) ==
    <<PySlice(summary_text, entity.start, entity.end + 1), entity.entity_group>>

\* "The Entity"
EntitySegment(summary_text, entity) ==
    <<PySlice(summary_text, entity.start, entity.end), entity.entity_group>>

\* one iteration of `for entity in ner_res`
LoopBody(summary_text, st, entity) ==
    [out |-> st.out \o GapBefore(summary_text, st.cursor, entity)
                    \o <<EntitySegment(summary_text, entity)>>,
     cursor |-> entity.end]

\* mutant: the text after the last entity is forgotten
RemainingOmitted(summary_text, cursor) == <<>>

\* mutant: a trailing segment is emitted when the cursor is at the end too
RemainingAtEnd(summary_text, cursor) ==
    IF cursor <= Len(summary_text)
    THEN << <<PySliceFrom(summary_text, cursor), None>> >>
    ELSE <<>>

\* "Remaining text"
Remaining(summary_text, cursor) ==
    IF cursor < Len(summary_text)
    THEN << <<PySliceFrom(summary_text, cursor), None>> >>
    ELSE <<>>

RECURSIVE Loop(_, _, _, _)
Loop(summary_text, ner_res, i, st) ==
    IF i > Len(ner_res) THEN st
    ELSE Loop(summary_text, ner_res, i + 1, LoopBody(summary_text, st, ner_res[i]))

\* formatted_output as returned
Stitch(summary_text, ner_res) ==
    LET st == Loop(summary_text, ner_res, 1, StitchStart)
    IN st.out \o Remaining(summary_text, st.cursor)

----------------------------------------------------------------------------
(* The handlers *)

\* app.py: module initialisation of `summarizer`
LoadSummarizer(loads) == IF loads THEN PIPELINE ELSE None

\* TextProcessor.__init__ and _load_models: the first failure leaves the
\* later pipeline None
LoadModels(sumLoads, nerLoads) ==
    IF ~sumLoads THEN <<None, None>>
    ELSE IF ~nerLoads THEN <<PIPELINE, None>>
    ELSE <<PIPELINE, PIPELINE>>

\* app.py summarize_text: the try block
SummarizeTry(txt, so) ==
    LET s == Invoke("summarizer", txt, so, <<>>)
    IN IF s.exc # None THEN s
       ELSE Return([msg |-> MSG_SUMMARY, summary |-> s.val, err |-> None], s.calls)

\* mutant: the length check placed before the blank check
summarize_text_LengthFirst(summ, txt, so) ==
    IF summ = None
    THEN Return([msg |-> MSG_NOT_LOADED, summary |-> <<>>, err |-> None], <<>>)
    ELSE IF Len(txt) < MIN_CHARS
    THEN Return([msg |-> MSG_INPUT_TOO_SHORT, summary |-> <<>>, err |-> None], <<>>)
    ELSE IF Len(txt) = 0 \/ Len(Strip(txt)) = 0
    THEN Return([msg |-> MSG_ENTER_TEXT, summary |-> <<>>, err |-> None], <<>>)
    ELSE LET body == SummarizeTry(txt, so)
         IN IF body.exc # None
            THEN Return([msg |-> MSG_ERROR_OCCURRED, summary |-> <<>>,
                         err |-> body.exc], body.calls)
            ELSE body

\* mutant: the length check made on the stripped text
summarize_text_TrimmedLength(summ, txt, so) ==
    IF summ = None
    THEN Return([msg |-> MSG_NOT_LOADED, summary |-> <<>>, err |-> None], <<>>)
    ELSE IF Len(txt) = 0 \/ Len(Strip(txt)) = 0
    THEN Return([msg |-> MSG_ENTER_TEXT, summary |-> <<>>, err |-> None], <<>>)
    ELSE IF Len(Strip(txt)) < MIN_CHARS
    THEN Return([msg |-> MSG_INPUT_TOO_SHORT, summary |-> <<>>, err |-> None], <<>>)
    ELSE LET body == SummarizeTry(txt, so)
         IN IF body.exc # None
            THEN Return([msg |-> MSG_ERROR_OCCURRED, summary |-> <<>>,
                         err |-> body.exc], body.calls)
            ELSE body

\* app.py summarize_text
summarize_text(summ, txt, so) ==
    IF summ = None
    THEN Return([msg |-> MSG_NOT_LOADED, summary |-> <<>>, err |-> None], <<>>)
    ELSE IF Len(txt) = 0 \/ Len(Strip(txt)) = 0
    THEN Return([msg |-> MSG_ENTER_TEXT, summary |-> <<>>, err |-> None], <<>>)
    ELSE IF Len(txt) < MIN_CHARS
    THEN Return([msg |-> MSG_INPUT_TOO_SHORT, summary |-> <<>>, err |-> None], <<>>)
    ELSE LET body == SummarizeTry(txt, so)
         IN IF body.exc # None
            THEN Return([msg |-> MSG_ERROR_OCCURRED, summary |-> <<>>,
                         err |-> body.exc], body.calls)
            ELSE body

\* mutant: the tagger run on the request text instead of the summary
ProcessTryTagsInput(txt, so, no) ==
    LET s == Invoke("summarizer", txt, so, <<>>)
    IN IF s.exc # None THEN s
       ELSE LET n == Invoke("ner_pipeline", txt, no, s.calls)
            IN IF n.exc # None THEN n
               ELSE Return([msg |-> MSG_SUMMARY, summary |-> s.val, err |-> None,
                            segs |-> Stitch(s.val, n.val)], n.calls)

\* TextProcessor.process: the try block
ProcessTry(txt, so, no) ==
    LET s == Invoke("summarizer", txt, so, <<>>)
    IN IF s.exc # None THEN s
       ELSE LET n == Invoke("ner_pipeline", s.val, no, s.calls)
            IN IF n.exc # None THEN n
               ELSE Return([msg |-> MSG_SUMMARY, summary |-> s.val, err |-> None,
                            segs |-> Stitch(s.val, n.val)], n.calls)

\* mutant: inference outside any try/except
process_Unguarded(self_summarizer, self_ner_pipeline, txt, so, no) ==
    IF self_summarizer = None \/ self_ner_pipeline = None
    THEN Return([msg |-> MSG_NOT_INITIALIZED, summary |-> <<>>, err |-> None,
                 segs |-> <<>>], <<>>)
    ELSE IF Len(txt) = 0 \/ Len(Strip(txt)) < MIN_CHARS
    THEN Return([msg |-> MSG_TEXT_TOO_SHORT, summary |-> <<>>, err |-> None,
                 segs |-> <<>>], <<>>)
    ELSE ProcessTry(txt, so, no)

\* TextProcessor.process
process(self_summarizer, self_ner_pipeline, txt, so, no) ==
    IF self_summarizer = None \/ self_ner_pipeline = None
    THEN Return([msg |-> MSG_NOT_INITIALIZED, summary |-> <<>>, err |-> None,
                 segs |-> <<>>], <<>>)
    ELSE IF Len(txt) = 0 \/ Len(Strip(txt)) < MIN_CHARS
    THEN Return([msg |-> MSG_TEXT_TOO_SHORT, summary |-> <<>>, err |-> None,
                 segs |-> <<>>], <<>>)
    ELSE LET body == ProcessTry(txt, so, no)
         IN IF body.exc # None
            THEN Return([msg |-> MSG_PROCESSING_ERROR, summary |-> <<>>,
                         err |-> body.exc, segs |-> <<>>], body.calls)
            ELSE body

\* what the caller of a handler sees
Completion(c) ==
    IF c.exc = None THEN [exc |-> None, val |-> c.val]
    ELSE [exc |-> c.exc, val |-> None]

----------------------------------------------------------------------------
(* Inputs *)

SeqsUpTo(S, n) == UNION {[1..k -> S] : k \in 0..n}

Pad(n) == [i \in 1..n |-> " "]
Body(n) == [i \in 1..n |-> IF i = 2 /\ n > 2 THEN " " ELSE "a"]

PadSizes == (0..MaxPad) \cup {LongPad}
BodySizes == (0..Delta) \cup ((MIN_CHARS - Delta)..(MIN_CHARS + Delta))

\* request texts around the gate's cases
GateTexts == {Pad(l) \o Body(b) \o Pad(t) : l \in PadSizes, b \in BodySizes, t \in PadSizes}

\* a request text every gate lets through
LONG_TEXT == Body(MIN_CHARS)

SAMPLE_SUMMARY == <<"a", " ">>

\* summaries
Texts == SeqsUpTo(Chars, MaxLen)

Span(s, e, l) == [start |-> s, end |-> e, entity_group |-> l]

\* spans over a text, offsets possibly out of bounds or inverted
AnySpans(t) == {Span(s, e, l) : s \in (-1)..(Len(t) + 1), e \in (-1)..(Len(t) + 1), l \in Labels}

\* spans satisfying 0 <= start < end <= length(text)
InBoundSpans(t) == {sp \in AnySpans(t) : 0 <= sp.start /\ sp.start < sp.end /\ sp.end <= Len(t)}

\* sorted ascending, pairwise non-overlapping, in bounds
WellFormed(t, spans) ==
    /\ \A i \in 1..Len(spans) :
          0 <= spans[i].start /\ spans[i].start < spans[i].end /\ spans[i].end <= Len(t)
    /\ \A i \in 1..(Len(spans) - 1) : spans[i].end <= spans[i + 1].start

\* the well-formed sequences of at most k spans that start at lo or later
RECURSIVE WellFormedFrom(_, _, _)
WellFormedFrom(t, lo, k) ==
    {<<>>} \cup
    (IF k = 0 THEN {}
     ELSE UNION {{<<sp>> \o rest : rest \in WellFormedFrom(t, sp.end, k - 1)} :
                 sp \in {x \in InBoundSpans(t) : x.start >= lo}})

WellFormedSeqs(t) == WellFormedFrom(t, 0, MaxSpans)

\* texts for which ill-formed tagger answers are enumerated
ProbeTexts == {SAMPLE_SUMMARY}

\* span sequences under no constraint at all: unsorted, overlapping, inverted,
\* out of bounds
UnconstrainedSeqs(t) ==
    IF t \in ProbeTexts THEN SeqsUpTo(AnySpans(t), MaxAnySpans) ELSE {}

\* answers of the tagger for a text
TaggerResults(t) == WellFormedSeqs(t) \cup UnconstrainedSeqs(t)

Raises == {[raises |-> TRUE, exc |-> e, val |-> None] : e \in Exceptions}
Returns(V) == {[raises |-> FALSE, exc |-> None, val |-> v] : v \in V}

SAMPLE_ENTITIES == <<Span(0, 1, "PER")>>

NoConc == <<>>

----------------------------------------------------------------------------
(* Requests *)

SummarizeTextRequest ==
    LET c == summarize_text(summarizer, text, sum_outcome)
    IN /\ handler' = "summarize_text"
       /\ ret' = Completion(c)
       /\ calls' = c.calls
       /\ UNCHANGED <<req_vars, conc_vars>>

ProcessRequest ==
    LET c == process(proc_summarizer, proc_ner_pipeline, text, sum_outcome, ner_outcome)
    IN /\ handler' = "process"
       /\ ret' = Completion(c)
       /\ calls' = c.calls
       /\ UNCHANGED <<req_vars, conc_vars>>

InitIdle ==
    /\ handler = None
    /\ ret = [exc |-> None, val |-> None]
    /\ calls = <<>>
    /\ c_text = NoConc /\ c_spans = NoConc /\ c_pc = NoConc
    /\ c_idx = NoConc /\ c_cursor = NoConc /\ c_out = NoConc

\* the gate, model loading and pipeline failures
Init ==
    /\ summarizer \in {LoadSummarizer(b) : b \in BOOLEAN}
    /\ \E sl \in BOOLEAN, nl \in BOOLEAN :
          /\ proc_summarizer = LoadModels(sl, nl)[1]
          /\ proc_ner_pipeline = LoadModels(sl, nl)[2]
    /\ text \in GateTexts
    /\ sum_outcome \in Raises \cup Returns({<<>>, SAMPLE_SUMMARY})
    /\ ner_outcome \in Raises \cup Returns({<<>>, SAMPLE_ENTITIES})
    /\ InitIdle

Next == SummarizeTextRequest \/ ProcessRequest

Spec == Init /\ [][Next]_vars

\* the stitching over every summary and tagger answer
InitStitch ==
    /\ summarizer = PIPELINE
    /\ proc_summarizer = PIPELINE
    /\ proc_ner_pipeline = PIPELINE
    /\ text = LONG_TEXT
    /\ sum_outcome \in Returns(Texts)
    /\ ner_outcome \in Returns(TaggerResults(sum_outcome.val))
    /\ InitIdle

NextStitch == ProcessRequest

SpecStitch == InitStitch /\ [][NextStitch]_vars

----------------------------------------------------------------------------
(* Concurrent calls: the stitching of several requests, served by the     *)
(* framework's worker threads, interleaved iteration by iteration.  cursor *)
(* and formatted_output are locals of each call.                           *)

Calls == {1, 2}

ConcTexts == {<<"a", " ", "a">>, <<" ", "a">>}

ConcInputs == {<<t, sq>> : t \in ConcTexts, sq \in UNION {WellFormedSeqs(u) : u \in ConcTexts}}

\* `cursor = 0` and `formatted_output = []` of a call that starts stitching
InitConc ==
    /\ summarizer = PIPELINE
    /\ proc_summarizer = PIPELINE
    /\ proc_ner_pipeline = PIPELINE
    /\ text = LONG_TEXT
    /\ sum_outcome \in Returns({<<>>})
    /\ ner_outcome \in Returns({<<>>})
    /\ handler = None
    /\ ret = [exc |-> None, val |-> None]
    /\ calls = <<>>
    /\ \E in \in [Calls -> ConcInputs] :
          /\ c_text = [c \in Calls |-> in[c][1]]
          /\ c_spans = [c \in Calls |-> in[c][2]]
    /\ c_pc = [c \in Calls |-> "loop"]
    /\ c_idx = [c \in Calls |-> 1]
    /\ c_cursor = [c \in Calls |-> StitchStart.cursor]
    /\ c_out = [c \in Calls |-> StitchStart.out]

\* mutant: the cursor kept in a place all calls share
AssignCursorShared(c, value) == [d \in Calls |-> value]

\* `cursor = entity['end']`: the assignment is to the call's own local
AssignCursor(c, value) == [c_cursor EXCEPT ![c] = value]

\* `formatted_output.append(...)`: the list is the call's own local
AssignOutput(c, value) == [c_out EXCEPT ![c] = value]

\* one iteration of the loop of call c
StitchIter(c) ==
    /\ c_pc[c] = "loop"
    /\ c_idx[c] <= Len(c_spans[c])
    /\ LET st == LoopBody(c_text[c], [out |-> c_out[c], cursor |-> c_cursor[c]],
                          c_spans[c][c_idx[c]])
       IN /\ c_cursor' = AssignCursor(c, st.cursor)
          /\ c_out' = AssignOutput(c, st.out)
    /\ c_idx' = [c_idx EXCEPT ![c] = @ + 1]
    /\ UNCHANGED <<req_vars, handler, ret, calls, c_text, c_spans, c_pc>>

\* the loop of call c is exhausted: "Remaining text", and the return
StitchRemaining(c) ==
    /\ c_pc[c] = "loop"
    /\ c_idx[c] > Len(c_spans[c])
    /\ c_out' = AssignOutput(c, c_out[c] \o Remaining(c_text[c], c_cursor[c]))
    /\ c_pc' = [c_pc EXCEPT ![c] = "done"]
    /\ UNCHANGED <<req_vars, handler, ret, calls, c_text, c_spans, c_idx, c_cursor>>

NextConc == \E c \in Calls : StitchIter(c) \/ StitchRemaining(c)

SpecConc == InitConc /\ [][NextConc]_vars

----------------------------------------------------------------------------
(* Vocabulary of the properties *)

\* process reached step 3 and returned its stitched result
Stitched ==
    /\ handler = "process"
    /\ ret.exc = None
    /\ ret.val.msg = MSG_SUMMARY

\* the text and the spans the stitching ran on
Summary == sum_outcome.val
Entities == ner_outcome.val

RECURSIVE ConcatTexts(_)
ConcatTexts(segs) ==
    IF segs = <<>> THEN <<>> ELSE Head(segs)[1] \o ConcatTexts(Tail(segs))

IsLabeled(seg) == seg[2] # None
LabeledSegments(segs) == SelectSeq(segs, IsLabeled)
SegmentFlags(segs) == [i \in 1..Len(segs) |-> IsLabeled(segs[i])]

\* text[a:b] for 0 <= a <= b <= length(text)
Substring(t, a, b) == [k \in 1..(b - a) |-> t[a + k]]

\* the characters of positions WrapClamp(a) .. WrapClamp(b) - 1, where a
\* negative offset counts from the end and every offset is clamped to the text
WrapClamp(t, i) ==
    LET j == IF i < 0 THEN i + Len(t) ELSE i
    IN IF j < 0 THEN 0 ELSE IF j > Len(t) THEN Len(t) ELSE j

SilentSlice(t, a, b) ==
    IF WrapClamp(t, b) > WrapClamp(t, a)
    THEN Substring(t, WrapClamp(t, a), WrapClamp(t, b))
    ELSE <<>>

BadSpan(t, sp) == sp.start < 0 \/ sp.end > Len(t) \/ sp.start > sp.end

\* which segments are labeled, following the cursor rule
RECURSIVE ExpectedFlags(_, _, _, _)
ExpectedFlags(t, spans, i, cur) ==
    IF i > Len(spans)
    THEN (IF cur < Len(t) THEN <<FALSE>> ELSE <<>>)
    ELSE (IF spans[i].start > cur THEN <<FALSE>> ELSE <<>>)
         \o <<TRUE>> \o ExpectedFlags(t, spans, i + 1, spans[i].end)

Blank(t) == \A i \in 1..Len(t) : t[i] \in Whitespace

RECURSIVE DropLeading(_)
DropLeading(t) ==
    IF t # <<>> /\ Head(t) \in Whitespace THEN DropLeading(Tail(t)) ELSE t

RECURSIVE DropTrailing(_)
DropTrailing(t) ==
    IF t # <<>> /\ t[Len(t)] \in Whitespace
    THEN DropTrailing(SubSeq(t, 1, Len(t) - 1)) ELSE t

TrimmedLen(t) == Len(DropTrailing(DropLeading(t)))

Loaded(h) ==
    IF h = "summarize_text" THEN summarizer # None
    ELSE proc_summarizer # None /\ proc_ner_pipeline # None

\* a handler served the request with its models loaded
Served == handler # None /\ Loaded(handler)

SummarizerInvoked == calls # <<>> /\ calls[1] = [fn |-> "summarizer", arg |-> text]

\* the warning handler h answers to text t when its models are loaded
WarningFor(h, t) ==
    IF h = "summarize_text" THEN summarize_text(PIPELINE, t, sum_outcome).val.msg
    ELSE process(PIPELINE, PIPELINE, t, sum_outcome, ner_outcome).val.msg

----------------------------------------------------------------------------
(* Properties of the stitching, under SpecStitch *)

\* C1: round trip.  For a span sequence that is sorted, non-overlapping and
\* in bounds, the texts of the returned segments, concatenated in order, are
\* the stitched text.
C1_RoundTrip ==
    (Stitched /\ WellFormed(Summary, Entities))
        => ConcatTexts(ret.val.segs) = Summary

\* two entities, text before the first and between them
C1_Witness ==
    /\ Stitched
    /\ WellFormed(Summary, Entities)
    /\ Len(Entities) = 2
    /\ Entities[1].start > 0
    /\ Entities[1].end < Entities[2].start
    /\ ConcatTexts(ret.val.segs) = Summary

\* C2: label fidelity.  For a well-formed span sequence the labeled segments
\* are, in order, the spans: as many, each with the text of its range and
\* its label.
C2_LabelFidelity ==
    (Stitched /\ WellFormed(Summary, Entities))
        => LET lab == LabeledSegments(ret.val.segs)
           IN /\ Len(lab) = Len(Entities)
              /\ \A i \in 1..Len(Entities) :
                    lab[i] = <<Substring(Summary, Entities[i].start, Entities[i].end),
                               Entities[i].entity_group>>

\* two entities with different labels among unlabeled text
C2_Witness ==
    /\ Stitched
    /\ WellFormed(Summary, Entities)
    /\ Len(Entities) = 2
    /\ Entities[1].entity_group # Entities[2].entity_group
    /\ Len(ret.val.segs) > 2
    /\ Len(LabeledSegments(ret.val.segs)) = 2

\* C3 as stated: a span with out-of-bounds or inverted offsets makes the
\* annotator fail; no segment sequence is returned.
C3_InvalidSpanFails ==
    (/\ handler = "process"
     /\ Len(calls) = 2
     /\ ~ner_outcome.raises
     /\ \E i \in 1..Len(Entities) : BadSpan(Summary, Entities[i]))
        => (ret.exc # None \/ ret.val.msg # MSG_SUMMARY)

\* C3 amended: such a span raises nothing.  The summary is returned with a
\* segment sequence holding one labeled segment per span, whose text is the
\* range after counting negative offsets from the end and clamping to the
\* text (empty when inverted).
C3_InvalidSpanSliced ==
    (/\ handler = "process"
     /\ Len(calls) = 2
     /\ ~ner_outcome.raises
     /\ \E i \in 1..Len(Entities) : BadSpan(Summary, Entities[i]))
        => /\ ret.exc = None
           /\ ret.val.msg = MSG_SUMMARY
           /\ ret.val.summary = Summary
           /\ LET lab == LabeledSegments(ret.val.segs)
              IN /\ Len(lab) = Len(Entities)
                 /\ \A i \in 1..Len(Entities) :
                       lab[i] = <<SilentSlice(Summary, Entities[i].start, Entities[i].end),
                                  Entities[i].entity_group>>

\* a span ending beyond the text comes back truncated to the whole text; a
\* span starting at -1 comes back as the last character
C3_Witness ==
    /\ Stitched
    /\ Len(Entities) = 2
    /\ Entities[1].start = -1 /\ Entities[1].end = Len(Summary)
    /\ Entities[2].start = 0 /\ Entities[2].end = Len(Summary) + 1
    /\ ret.val.segs = << <<SubSeq(Summary, Len(Summary), Len(Summary)), Entities[1].entity_group>>,
                         <<Summary, Entities[2].entity_group>> >>

\* C6: no empty segment.  For a well-formed span sequence every returned
\* segment has at least one character; the empty text without spans gives
\* no segment.
C6_NoEmptySegment ==
    /\ (Stitched /\ WellFormed(Summary, Entities))
          => \A i \in 1..Len(ret.val.segs) : Len(ret.val.segs[i][1]) >= 1
    /\ (Stitched /\ Summary = <<>> /\ Entities = <<>>)
          => ret.val.segs = <<>>

\* adjacent entities covering the whole text: every gap is empty, none is
\* emitted
C6_Witness ==
    /\ Stitched
    /\ WellFormed(Summary, Entities)
    /\ Len(Entities) = 2
    /\ Entities[1].start = 0
    /\ Entities[1].end = Entities[2].start
    /\ Entities[2].end = Len(Summary)
    /\ Len(ret.val.segs) = 2

\* C8: gap segments.  Without spans the output is the whole text as one
\* unlabeled segment, or nothing for the empty text; a first span at 0 has
\* no unlabeled segment before it, a last span ending at the end of the text
\* none after it; an unlabeled segment stands exactly where a span starts
\* after the cursor, or the cursor is before the end after the last span.
C8_GapSegments ==
    Stitched =>
        LET segs == ret.val.segs
        IN /\ Entities = <<>>
                => segs = IF Summary = <<>> THEN <<>> ELSE << <<Summary, None>> >>
           /\ (Entities # <<>> /\ Entities[1].start = 0)
                => IsLabeled(segs[1])
           /\ (Entities # <<>> /\ Entities[Len(Entities)].end = Len(Summary))
                => IsLabeled(segs[Len(segs)])
           /\ SegmentFlags(segs) = ExpectedFlags(Summary, Entities, 1, 0)

\* an entity at the very start, text, an entity at the very end
C8_Witness ==
    /\ Stitched
    /\ WellFormed(Summary, Entities)
    /\ Len(Entities) = 2
    /\ Entities[1].start = 0
    /\ Entities[2].end = Len(Summary)
    /\ SegmentFlags(ret.val.segs) = <<TRUE, FALSE, TRUE>>

----------------------------------------------------------------------------
(* Properties of the handlers, under Spec *)

\* C4 as stated: each handler rejects blank input and input shorter than the
\* minimum with two distinct warnings, the blank check first, and without
\* invoking the Summarizer.
C4_DistinctWarnings ==
    Served =>
        /\ Blank(text)
              => /\ calls = <<>>
                 /\ ret.val.msg \in {MSG_ENTER_TEXT, MSG_TEXT_TOO_SHORT}
                 /\ \A t \in GateTexts :
                       (~Blank(t) /\ Len(t) < MIN_CHARS)
                           => WarningFor(handler, t) # ret.val.msg
        /\ (~Blank(text) /\ Len(text) < MIN_CHARS)
              => /\ calls = <<>>
                 /\ ret.val.msg \in {MSG_INPUT_TOO_SHORT, MSG_TEXT_TOO_SHORT}

\* C4 amended: summarize_text rejects blank input and, after it, non-blank
\* input shorter than the minimum, with two distinct warnings; process
\* rejects empty input and input whose stripped length is below the minimum
\* with one and the same warning and an empty segment list; on a rejection
\* no pipeline is invoked.
C4_Gate ==
    /\ (handler = "summarize_text" /\ Loaded(handler))
          => /\ Blank(text)
                   => /\ ret.val.msg = MSG_ENTER_TEXT
                      /\ calls = <<>>
                      /\ \A t \in GateTexts :
                            (~Blank(t) /\ Len(t) < MIN_CHARS)
                                => WarningFor(handler, t) # ret.val.msg
             /\ (~Blank(text) /\ Len(text) < MIN_CHARS)
                   => /\ ret.val.msg = MSG_INPUT_TOO_SHORT
                      /\ calls = <<>>
    /\ (handler = "process" /\ Loaded(handler))
          => ((Blank(text) \/ TrimmedLen(text) < MIN_CHARS)
                => /\ ret.val.msg = MSG_TEXT_TOO_SHORT
                   /\ ret.val.segs = <<>>
                   /\ calls = <<>>)

\* summarize_text answers a blank text under the minimum length with the
\* blank warning
C4_Witness ==
    /\ handler = "summarize_text"
    /\ Loaded(handler)
    /\ text # <<>>
    /\ Blank(text)
    /\ Len(text) < MIN_CHARS
    /\ ret.val.msg = MSG_ENTER_TEXT
    /\ calls = <<>>

\* C5 as stated: the length check is on the raw length; every non-blank
\* input of raw length at least the minimum reaches the Summarizer; the long
\* run of blanks is rejected, and not by the length check.
C5_RawLengthEverywhere ==
    Served =>
        /\ (~Blank(text) /\ Len(text) >= MIN_CHARS) => SummarizerInvoked
        /\ text = Pad(LongPad)
              => calls = <<>> /\ ret.val.msg # MSG_INPUT_TOO_SHORT

\* C5 amended: in summarize_text the length check is on the raw length: a
\* non-blank input reaches the Summarizer exactly when its raw length is at
\* least the minimum, and the long run of blanks gets the blank warning.  In
\* process the check is on the stripped length: an input reaches the
\* Summarizer exactly when its stripped length is at least the minimum.
C5_LengthChecks ==
    /\ (handler = "summarize_text" /\ Loaded(handler))
          => /\ ~Blank(text) => (SummarizerInvoked <=> Len(text) >= MIN_CHARS)
             /\ Blank(text) => calls = <<>>
             /\ text = Pad(LongPad) => ret.val.msg = MSG_ENTER_TEXT
    /\ (handler = "process" /\ Loaded(handler))
          => (SummarizerInvoked <=> TrimmedLen(text) >= MIN_CHARS)

\* summarize_text lets through a text whose stripped length is under the
\* minimum
C5_Witness ==
    /\ handler = "summarize_text"
    /\ Loaded(handler)
    /\ ~Blank(text)
    /\ Len(text) >= MIN_CHARS
    /\ TrimmedLen(text) < MIN_CHARS
    /\ SummarizerInvoked

\* C9: in a request of process the tagger is invoked at most once, only
\* after the Summarizer returned, and on the Summarizer's output; with the
\* models not loaded or the input rejected no pipeline is invoked and the
\* segment list is empty.
C9_TaggerAfterSummarizer ==
    handler = "process" =>
        /\ Cardinality({i \in 1..Len(calls) : calls[i].fn = "ner_pipeline"}) <= 1
        /\ Cardinality({i \in 1..Len(calls) : calls[i].fn = "summarizer"}) <= 1
        /\ (\E i \in 1..Len(calls) : calls[i].fn = "ner_pipeline")
              => /\ ~sum_outcome.raises
                 /\ calls = <<[fn |-> "summarizer", arg |-> text],
                              [fn |-> "ner_pipeline", arg |-> sum_outcome.val]>>
        /\ (~Loaded(handler) \/ Blank(text) \/ TrimmedLen(text) < MIN_CHARS)
              => /\ calls = <<>>
                 /\ ret.exc = None
                 /\ ret.val.segs = <<>>

\* the tagger ran on a summary that is not the request text
C9_Witness ==
    /\ handler = "process"
    /\ Len(calls) = 2
    /\ calls[2].fn = "ner_pipeline"
    /\ calls[2].arg = SAMPLE_SUMMARY
    /\ calls[2].arg # text

\* C10: no handler raises.  With the models not loaded the not-loaded
\* message is returned, whatever the input; when a pipeline raises, an error
\* message is returned, in process with an empty segment list.
C10_NoPropagation ==
    handler # None =>
        /\ ret.exc = None
        /\ (handler = "summarize_text" /\ ~Loaded(handler))
              => ret.val.msg = MSG_NOT_LOADED /\ calls = <<>>
        /\ (handler = "summarize_text" /\ SummarizerInvoked /\ sum_outcome.raises)
              => ret.val.msg = MSG_ERROR_OCCURRED /\ ret.val.err = sum_outcome.exc
        /\ (handler = "process" /\ ~Loaded(handler))
              => /\ ret.val.msg = MSG_NOT_INITIALIZED
                 /\ ret.val.segs = <<>>
                 /\ calls = <<>>
        /\ (handler = "process" /\ SummarizerInvoked
                /\ (sum_outcome.raises \/ ner_outcome.raises))
              => /\ ret.val.msg = MSG_PROCESSING_ERROR
                 /\ ret.val.err \in Exceptions
                 /\ ret.val.segs = <<>>

\* the tagger raised after the Summarizer returned: an error message and no
\* segments
C10_Witness ==
    /\ handler = "process"
    /\ Len(calls) = 2
    /\ ner_outcome.raises
    /\ ret.exc = None
    /\ ret.val.msg = MSG_PROCESSING_ERROR
    /\ ret.val.segs = <<>>

----------------------------------------------------------------------------
(* Property of concurrent calls, under SpecConc *)

Done(c) == c_pc[c] = "done"

\* C7: the result of a call is determined by its own text and spans, under
\* every interleaving with the other call; calls with the same inputs
\* return the same output; no step changes a call's arguments or the loaded
\* pipelines.
C7_PureCalls ==
    /\ [](\A c \in Calls :
            /\ Done(c) => c_out[c] = Stitch(c_text[c], c_spans[c])
            /\ \A d \in Calls :
                  (Done(c) /\ Done(d) /\ c_text[c] = c_text[d] /\ c_spans[c] = c_spans[d])
                      => c_out[c] = c_out[d])
    /\ [][/\ c_text' = c_text
          /\ c_spans' = c_spans
          /\ proc_summarizer' = proc_summarizer
          /\ proc_ner_pipeline' = proc_ner_pipeline]_vars

\* both calls finished on the same text and the same two entities
C7_Witness ==
    /\ \A c \in Calls : Done(c)
    /\ c_text[1] = c_text[2]
    /\ c_spans[1] = c_spans[2]
    /\ Len(c_spans[1]) = 2
    /\ c_out[1] = c_out[2]
    /\ Len(c_out[1]) > 2

====
